---- MODULE Spec2Model ----
(***************************************************************************)
(* The natural-language website-testing agent: the interactive loop of     *)
(* agent/langgraph_agent.py, the agent/tools graph it runs for each        *)
(* command, the tool adapters with the process-wide BrowserManager, and    *)
(* the BrowserManager of agent/browser_tools.py.                           *)
(*                                                                         *)
(* The graph has two nodes.  "agent" is agent_node.  "tools" is the        *)
(* prebuilt ToolNode(TOOLS): it hands every tool call of the last          *)
(* assistant message to a worker of its own (the calls of one message run  *)
(* in parallel), waits for all of them, turns an exception of a tool into  *)
(* an error tool message, and returns one tool message per call in the     *)
(* order of the calls.  Every adapter runs its coroutine with              *)
(* asyncio.get_event_loop().run_until_complete(...): that raises           *)
(* RuntimeError when the calling thread has no event loop or when the loop *)
(* is already running, and otherwise runs the coroutine to completion.     *)
(***************************************************************************)
EXTENDS Integers, Sequences, FiniteSets, TLC

VARIABLES
    mainpc,           \* __main__: "input" (at input()), "run" (in run_agent), "exited"
    state_messages,   \* state["messages"] of the state object __main__ holds
    messages,         \* the "messages" channel of the running graph
    node,             \* node the graph runs next: "agent", "tools", "end", "none"
    api_key,          \* os.getenv("OPENAI_API_KEY")
    browser_manager,  \* the global _browser_manager: 0 is None, else a manager id
    managers,         \* every BrowserManager constructed so far, by id
    browsers,         \* every browser launched so far, by id: "open" or "closed"
    thr,              \* the ToolNode workers of the current act step, by call index
    loop_running,     \* the event loop is inside run_until_complete
    next_id,          \* next fresh message id
    commands,         \* commands handed to run_agent so far
    tool_turns,       \* act steps of the current run_agent call
    llm_calls,        \* llm.invoke calls of the current command
    facade_ops,       \* BrowserManager operations begun in the current command
    report,           \* what __main__ printed last
    interrupted,      \* a KeyboardInterrupt ended the loop
    prompt,           \* full_messages of the last llm.invoke
    clear_mark,       \* id of the first message made after the last clear
    page_url,         \* URL of the page of the browser
    engine_calls,     \* engine calls of the last BrowserManager operation
    fresult,          \* outcome of the last BrowserManager operation
    server_process,   \* _server_process: 0 (None) or the process start_flask_server spawned
    procs,            \* the app.py processes spawned: "starting", "listening", "exited"
    port,             \* who listens on port 5000
    form,             \* values of #username and #password of the login page
    message_class,    \* class of #message: "", "success", "error"
    pending,          \* the submission of the form: "none", "request", "redirect"
    login_response,   \* the last request to /login and its response
    srv_result        \* the last call of start_flask_server / stop_flask_server

vars == <<mainpc, state_messages, messages, node, api_key, browser_manager,
          managers, browsers, thr, loop_running, next_id, commands, tool_turns,
          llm_calls, facade_ops, report, interrupted, prompt, clear_mark,
          page_url, engine_calls, fresult, server_process, procs, port, form,
          message_class, pending, login_response, srv_result>>

-----------------------------------------------------------------------------
(* Bounds *)

MaxCommands == 2      \* commands per behaviour
MaxToolTurns == 1     \* assistant messages with tool calls per command
MaxCalls == 2         \* tool calls per assistant message

-----------------------------------------------------------------------------
(* Inputs *)

PLACEHOLDER == "your_openai_api_key_here"

\* None is the unset variable; "sk-bad" is a key the LLM service rejects
ApiKeys == {"None", "", PLACEHOLDER, "sk-good", "sk-bad"}

ToolNames == {"navigate_to_url", "close_browser"}

PageTools == ToolNames \ {"close_browser"}

CommandTexts == {"open the login page"}

RawInputs == CommandTexts \cup {"", "  ", "quit", "EXIT", "Clear"}

Strip(s) == IF s = "  " THEN "" ELSE s

\* a comparison of the stripped line that keeps its letter case
Lower_Identity(s) == s

Lower(s) == CASE s = "EXIT" -> "exit"
              [] s = "Clear" -> "clear"
              [] OTHER -> s

CallSeqs(n) == UNION {[1..k -> ToolNames] : k \in 0..n}

-----------------------------------------------------------------------------
(* Messages *)

NoCall == <<0, 0>>

HumanMessage(id, text) ==
    [type |-> "human", id |-> id, content |-> text, tool_calls |-> <<>>,
     tool_call_id |-> NoCall, status |-> ""]

\* the response of the model: an answer and the tool calls it requests
AIMessage(id, calls) ==
    [type |-> "ai", id |-> id, content |-> "answer", tool_calls |-> calls,
     tool_call_id |-> NoCall, status |-> ""]

\* call k of assistant message aid is identified by <<aid, k>>
ToolMessage(id, aid, k, result) ==
    [type |-> "tool", id |-> id, content |-> result, tool_calls |-> <<>>,
     tool_call_id |-> <<aid, k>>,
     status |-> IF result = "error" THEN "error" ELSE "success"]

\* SystemMessage(content=SYSTEM_PROMPT)
SystemMessage ==
    [type |-> "system", id |-> 0, content |-> "SYSTEM_PROMPT",
     tool_calls |-> <<>>, tool_call_id |-> NoCall, status |-> ""]

\* full_messages = [system_message] + list(messages)
Prompt(msgs) == <<SystemMessage>> \o msgs

\* the "messages" agent_node returns: list(messages) + [response]
NodeOutput(msgs, response) == msgs \o <<response>>

Last(s) == s[Len(s)]

IndexOfId(s, id) ==
    IF \E i \in 1..Len(s) : s[i].id = id
    THEN CHOOSE i \in 1..Len(s) : s[i].id = id
    ELSE 0

RECURSIVE add_messages(_, _)
\* the reducer of the messages channel: a message of right replaces the
\* message of left with its id, and is appended when there is none
add_messages(left, right) ==
    IF right = <<>> THEN left
    ELSE LET m == Head(right)
             i == IndexOfId(left, m.id)
             merged == IF i = 0 THEN Append(left, m)
                       ELSE [left EXCEPT ![i] = m]
         IN add_messages(merged, Tail(right))

-----------------------------------------------------------------------------
(* create_llm, should_continue *)

\* create_llm without the comparison with the placeholder
KeyConfigured_NoPlaceholder(key) == ~(key = "None" \/ key = "")

KeyConfigured(key) == ~(key = "None" \/ key = "") /\ key # PLACEHOLDER

\* the LLM service answers only a request that carries a key it knows
ServiceAccepts(key) == key = "sk-good"

HasToolCalls(m) == m.type = "ai" /\ m.tool_calls # <<>>

\* should_continue testing only that the last message has a tool_calls
\* attribute, not that the list is non-empty
should_continue_AnyAI(msgs) ==
    IF msgs = <<>> THEN "end"
    ELSE IF Last(msgs).type = "ai" THEN "tools"
    ELSE "end"

\* should_continue ending the graph whatever the last message holds
should_continue_End(msgs) == "end"

should_continue(msgs) ==
    IF msgs = <<>> THEN "end"
    ELSE IF HasToolCalls(Last(msgs)) THEN "tools"
    ELSE "end"

-----------------------------------------------------------------------------
(* BrowserManager *)

NewManager == [playwright |-> "None", browser |-> 0, context |-> "None",
               page |-> "None"]

\* initialize with `stage` of its four engine calls done before one raises
\* (4: none raises); b is the id of the browser a launch creates
Initialize(m, stage, b) ==
    [playwright |-> IF stage >= 1 THEN "started" ELSE m.playwright,
     browser    |-> IF stage >= 2 THEN b ELSE m.browser,
     context    |-> IF stage >= 3 THEN "open" ELSE m.context,
     page       |-> IF stage >= 4 THEN "open" ELSE m.page]

Close(m) ==
    [playwright |-> IF m.playwright # "None" THEN "stopped" ELSE m.playwright,
     browser    |-> m.browser,
     context    |-> IF m.context # "None" THEN "closed" ELSE m.context,
     page       |-> IF m.page # "None" THEN "closed" ELSE m.page]

CloseBrowsers(m, bs) ==
    IF m.browser # 0 THEN [bs EXCEPT ![m.browser] = "closed"] ELSE bs

\* a test of the browser instead of the page
PageReady_Browser(m) == m.browser # 0

PageReady(m) == m.page # "None"

\* ensure_browser_initialized without its test: initialize on every call
NeedsInitialize_Always(m) == TRUE

\* ensure_browser_initialized testing manager.page instead of manager.browser
NeedsInitialize_Page(m) == m.page = "None"

NeedsInitialize(m) == m.browser = 0

\* close_browser without `_browser_manager = None`
ClearedManager_Kept(bm) == bm

ClearedManager(bm) == 0

OpenBrowsers == {b \in 1..Len(browsers) : browsers[b] = "open"}

-----------------------------------------------------------------------------
(* Strings, as sequences of characters *)

LowerChar(c) == CASE c = "A" -> "a"
                  [] c = "B" -> "b"
                  [] OTHER -> c

\* str.lower()
str_lower(t) == [i \in 1..Len(t) |-> LowerChar(t[i])]

\* Python's `a in b` on strings
Contains(a, b) ==
    \E i \in 0..(Len(b) - Len(a)) : \A j \in 1..Len(a) : b[i + j] = a[j]

-----------------------------------------------------------------------------
(* The page, as the browser engine shows it *)

MaxText == 2          \* length of an expected text

LOGIN == "http://localhost:5000"

DASHBOARD == "http://localhost:5000/dashboard"

Urls == {LOGIN, DASHBOARD}

\* "bad[" is not a selector the engine can parse
Selectors == {"#message", "#empty", "#missing", "bad["}

ValidSelector(sel) == sel # "bad["

Present(url, sel) ==
    \/ url = LOGIN /\ sel \in {"#message", "#empty"}
    \/ url = DASHBOARD /\ sel = "#message"

\* text_content() of the element sel of the page at url
TextContent(url, sel) ==
    CASE url = LOGIN /\ sel = "#message" -> <<"A", "b">>
      [] url = DASHBOARD /\ sel = "#message" -> <<"b">>
      [] OTHER -> <<>>

ExpectedTexts == UNION {[1..k -> {"a", "B"}] : k \in 0..MaxText}

\* an engine call on the page raises: the page is closed, or the selector
\* cannot be parsed
EngineRaises(m, sel) == m.page = "closed" \/ ~ValidSelector(sel)

-----------------------------------------------------------------------------
(* BrowserManager operations: what each returns or raises, the engine      *)
(* calls it makes, and the URL of the page afterwards                      *)

NOT_INITIALIZED == "RuntimeError: Browser not initialized"

Result(op, m, sel, expected, raised, success, exists, text, match, error) ==
    [op |-> op, page |-> m.page, selector |-> sel, expected |-> expected,
     raised |-> raised, success |-> success, exists |-> exists,
     text |-> text, match |-> match, error |-> error]

NoResult == Result("none", NewManager, "", <<>>, "", FALSE, FALSE, <<>>, FALSE, "")

Outcome(res, calls, url) == [res |-> res, calls |-> calls, url |-> url]

Raise(op, m, sel, expected, raised, calls, url) ==
    Outcome(Result(op, m, sel, expected, raised, FALSE, FALSE, <<>>, FALSE, ""),
            calls, url)

Success(op, m, sel, calls, url) ==
    Outcome(Result(op, m, sel, <<>>, "", TRUE, FALSE, <<>>, FALSE, ""), calls, url)

\* ok: page.goto reaches the URL
navigate(m, cur, url, ok) ==
    IF ~PageReady(m) THEN Raise("navigate", m, "", <<>>, NOT_INITIALIZED, <<>>, cur)
    ELSE IF m.page = "closed" \/ ~ok
         THEN Raise("navigate", m, "", <<>>, "Error", <<"page.goto">>, cur)
         ELSE Success("navigate", m, "", <<"page.goto", "page.title">>, url)

click(m, cur, sel) ==
    IF ~PageReady(m) THEN Raise("click", m, sel, <<>>, NOT_INITIALIZED, <<>>, cur)
    ELSE IF EngineRaises(m, sel) \/ ~Present(cur, sel)
         THEN Raise("click", m, sel, <<>>, "Error", <<"page.click">>, cur)
         ELSE Success("click", m, sel, <<"page.click">>, cur)

fill(m, cur, sel) ==
    IF ~PageReady(m) THEN Raise("fill", m, sel, <<>>, NOT_INITIALIZED, <<>>, cur)
    ELSE IF EngineRaises(m, sel) \/ ~Present(cur, sel)
         THEN Raise("fill", m, sel, <<>>, "Error", <<"page.fill">>, cur)
         ELSE Success("fill", m, sel, <<"page.fill">>, cur)

\* get_text without the test for a missing element: text_content() of None
get_text_Strict(m, cur, sel) ==
    IF ~PageReady(m) THEN Raise("get_text", m, sel, <<>>, NOT_INITIALIZED, <<>>, cur)
    ELSE IF EngineRaises(m, sel) \/ ~Present(cur, sel)
         THEN Raise("get_text", m, sel, <<>>, "Error", <<"page.query_selector">>, cur)
         ELSE Outcome(Result("get_text", m, sel, <<>>, "", TRUE, FALSE,
                             TextContent(cur, sel), FALSE, ""),
                      <<"page.query_selector", "element.text_content">>, cur)

get_text(m, cur, sel) ==
    IF ~PageReady(m) THEN Raise("get_text", m, sel, <<>>, NOT_INITIALIZED, <<>>, cur)
    ELSE IF EngineRaises(m, sel)
         THEN Raise("get_text", m, sel, <<>>, "Error", <<"page.query_selector">>, cur)
         ELSE IF Present(cur, sel)
              THEN Outcome(Result("get_text", m, sel, <<>>, "", TRUE, FALSE,
                                  TextContent(cur, sel), FALSE, ""),
                           <<"page.query_selector", "element.text_content">>, cur)
              ELSE Outcome(Result("get_text", m, sel, <<>>, "", TRUE, FALSE,
                                  <<>>, FALSE, ""),
                           <<"page.query_selector">>, cur)

verify_element_exists(m, cur, sel) ==
    IF ~PageReady(m)
    THEN Raise("verify_element_exists", m, sel, <<>>, NOT_INITIALIZED, <<>>, cur)
    ELSE IF EngineRaises(m, sel)
         THEN Raise("verify_element_exists", m, sel, <<>>, "Error",
                    <<"page.query_selector">>, cur)
         ELSE Outcome(Result("verify_element_exists", m, sel, <<>>, "", TRUE,
                             Present(cur, sel), <<>>, FALSE, ""),
                      <<"page.query_selector">>, cur)

\* expected_text.lower() in actual_text.lower() if actual_text else False
ContainsText(expected, actual) ==
    IF actual # <<>> THEN Contains(str_lower(expected), str_lower(actual))
    ELSE FALSE

verify_text_content(m, cur, sel, expected) ==
    IF ~PageReady(m)
    THEN Raise("verify_text_content", m, sel, expected, NOT_INITIALIZED, <<>>, cur)
    ELSE LET got == get_text(m, cur, sel)
         IN IF got.res.raised # ""
            THEN Raise("verify_text_content", m, sel, expected, got.res.raised,
                       got.calls, cur)
            ELSE Outcome(Result("verify_text_content", m, sel, expected, "", TRUE,
                                FALSE, got.res.text,
                                ContainsText(expected, got.res.text), ""),
                         got.calls, cur)

\* ok: the engine writes the file
screenshot(m, cur, ok) ==
    IF ~PageReady(m) THEN Raise("screenshot", m, "", <<>>, NOT_INITIALIZED, <<>>, cur)
    ELSE IF m.page = "closed" \/ ~ok
         THEN Raise("screenshot", m, "", <<>>, "Error", <<"page.screenshot">>, cur)
         ELSE Success("screenshot", m, "", <<"page.screenshot">>, cur)

\* wait_for_selector with the exception of the engine left to the caller
wait_for_selector_Uncaught(m, cur, sel) ==
    IF ~PageReady(m)
    THEN Raise("wait_for_selector", m, sel, <<>>, NOT_INITIALIZED, <<>>, cur)
    ELSE IF EngineRaises(m, sel) \/ ~Present(cur, sel)
         THEN Raise("wait_for_selector", m, sel, <<>>, "Error",
                    <<"page.wait_for_selector">>, cur)
         ELSE Success("wait_for_selector", m, sel, <<"page.wait_for_selector">>, cur)

\* the engine raises when the element does not appear within the timeout
wait_for_selector(m, cur, sel) ==
    IF ~PageReady(m)
    THEN Raise("wait_for_selector", m, sel, <<>>, NOT_INITIALIZED, <<>>, cur)
    ELSE IF EngineRaises(m, sel) \/ ~Present(cur, sel)
         THEN Outcome(Result("wait_for_selector", m, sel, <<>>, "", FALSE, FALSE,
                             <<>>, FALSE, "Error"),
                      <<"page.wait_for_selector">>, cur)
         ELSE Success("wait_for_selector", m, sel, <<"page.wait_for_selector">>, cur)

get_page_info(m, cur) ==
    IF ~PageReady(m)
    THEN Raise("get_page_info", m, "", <<>>, NOT_INITIALIZED, <<>>, cur)
    ELSE IF m.page = "closed"
         THEN Raise("get_page_info", m, "", <<>>, "Error", <<"page.title">>, cur)
         ELSE Success("get_page_info", m, "", <<"page.title">>, cur)

\* close() calling every release without the tests for None
CloseCalls_Unguarded(m) ==
    <<"page.close", "context.close", "browser.close", "playwright.stop">>

\* the releases close() makes, in its order
CloseCalls(m) ==
    (IF m.page # "None" THEN <<"page.close">> ELSE <<>>)
    \o (IF m.context # "None" THEN <<"context.close">> ELSE <<>>)
    \o (IF m.browser # 0 THEN <<"browser.close">> ELSE <<>>)
    \o (IF m.playwright # "None" THEN <<"playwright.stop">> ELSE <<>>)

\* a release called on None raises AttributeError
ReleaseOnNone(m, calls) ==
    \E k \in 1..Len(calls) :
        \/ calls[k] = "page.close" /\ m.page = "None"
        \/ calls[k] = "context.close" /\ m.context = "None"
        \/ calls[k] = "browser.close" /\ m.browser = 0
        \/ calls[k] = "playwright.stop" /\ m.playwright = "None"

\* what the tool of the adapter layer returns for the outcome of its
\* BrowserManager operation: a status text, or "raise"
AdapterReturn(res) ==
    IF res.raised # "" THEN "raise"
    ELSE CASE res.op = "wait_for_selector" ->
                 IF res.success THEN "appeared on the page"
                 ELSE "Timeout waiting for element"
           [] res.op = "verify_element_exists" ->
                 IF res.exists THEN "exists" ELSE "does not exist"
           [] res.op = "get_text" -> "Text content of"
           [] res.op = "navigate" -> "Navigated to"
           [] res.op = "click" -> "Clicked on element"
           [] res.op = "fill" -> "Filled"
           [] res.op = "screenshot" -> "Screenshot saved as"
           [] res.op = "get_page_info" -> "Current URL"
           [] OTHER -> "Browser closed successfully"

-----------------------------------------------------------------------------
(* The act step *)

Idle == [pc |-> "idle", result |-> ""]

LastCalls == IF messages # <<>> THEN Last(messages).tool_calls ELSE <<>>

NCalls == Len(LastCalls)

InFlight == {i \in 1..MaxCalls : thr[i].pc \in {"called", "coro"}}

InFacade == {i \in 1..MaxCalls : thr[i].pc = "coro"}

RECURSIVE ToolMessages_Reversed(_, _, _, _)
\* the tool messages in the order the workers were collected last to first
ToolMessages_Reversed(aid, k, n, id) ==
    IF k > n THEN <<>>
    ELSE <<ToolMessage(id, aid, n - k + 1, thr[n - k + 1].result)>>
         \o ToolMessages_Reversed(aid, k + 1, n, id + 1)

RECURSIVE ToolMessages(_, _, _, _)
\* the tool messages of calls k..n of assistant message aid, in call order
ToolMessages(aid, k, n, id) ==
    IF k > n THEN <<>>
    ELSE <<ToolMessage(id, aid, k, thr[k].result)>>
         \o ToolMessages(aid, k + 1, n, id + 1)

\* ToolNode(TOOLS, handle_tool_errors=False)
HandleToolErrors_Off == FALSE

\* ToolNode(TOOLS) keeps the default handle_tool_errors: an exception of a
\* tool becomes the content of an error tool message
HandleToolErrors == TRUE

\* call i ends with `result`: the worker is done, or the exception leaves
\* graph.invoke and run_agent and is reported by __main__
Complete(i, result) ==
    IF result = "error" /\ ~HandleToolErrors
    THEN /\ thr' = [j \in 1..MaxCalls |-> Idle]
         /\ node' = "none"
         /\ mainpc' = "input"
         /\ report' = "Error"
    ELSE /\ thr' = [thr EXCEPT ![i] = [pc |-> "done", result |-> result]]
         /\ UNCHANGED <<node, mainpc, report>>

-----------------------------------------------------------------------------
(* The sample application and the helpers that start and stop it *)

MaxSpawns == 2        \* app.py processes spawned in one run

\* request.form.get gives None for a field the request does not carry
FieldValues == {"None", "", "testuser", "testpass", "wronguser", "wrongpass"}

\* what a test types into a field of the form
Typed == FieldValues \ {"None"}

Reply(username, password, success, message, status) ==
    [username |-> username, password |-> password, success |-> success,
     message |-> message, status |-> status]

NoResponse == Reply("None", "None", FALSE, "", 0)

\* login() accepting every pair of non-empty fields
login_AcceptsAll(username, password) ==
    IF username \notin {"None", ""} /\ password \notin {"None", ""}
    THEN Reply(username, password, TRUE, "Login successful!", 200)
    ELSE Reply(username, password, FALSE, "Username and password are required", 400)

\* login() comparing the username only
login_UserOnly(username, password) ==
    IF username \notin {"None", ""} /\ password \notin {"None", ""}
    THEN IF username = "testuser"
         THEN Reply(username, password, TRUE, "Login successful!", 200)
         ELSE Reply(username, password, FALSE, "Invalid username or password", 401)
    ELSE Reply(username, password, FALSE, "Username and password are required", 400)

\* POST /login
login(username, password) ==
    IF username \notin {"None", ""} /\ password \notin {"None", ""}
    THEN IF username = "testuser" /\ password = "testpass"
         THEN Reply(username, password, TRUE, "Login successful!", 200)
         ELSE Reply(username, password, FALSE, "Invalid username or password", 401)
    ELSE Reply(username, password, FALSE, "Username and password are required", 400)

EmptyForm == [username |-> "", password |-> ""]

\* the form is submitted only with both required fields filled
Submits(f) == f.username # "" /\ f.password # ""

\* elements of the pages of the application the scenario looks for
SiteElements(url) ==
    IF url = DASHBOARD THEN {"#welcomeMessage", ".logout-btn"}
    ELSE IF url = LOGIN THEN {"#username", "#password", "#loginBtn", "#message"}
    ELSE {}

FreePort == [owner |-> "free", proc |-> 0]

ExternalServer == [owner |-> "external", proc |-> 0]

Spawned(k) == [owner |-> "spawned", proc |-> k]

\* is_port_in_use finding the port free whoever listens
is_port_in_use_Never(p) == FALSE

\* is_port_in_use(5000): the connect succeeds
is_port_in_use(p) == p.owner # "free"

\* a call of a helper: what it returned, whether it spawned a process,
\* and the process it stopped (0: none)
SrvResult(op, returned, spawned, stopped) ==
    [op |-> op, returned |-> returned, spawned |-> spawned, stopped |-> stopped]

\* nothing of the application runs and no page of it is shown
NoSite ==
    /\ server_process = 0
    /\ procs = <<>>
    /\ port = FreePort
    /\ form = EmptyForm
    /\ message_class = ""
    /\ pending = "none"
    /\ login_response = NoResponse
    /\ srv_result = SrvResult("none", FALSE, FALSE, 0)

-----------------------------------------------------------------------------

Init ==
    /\ mainpc = "input"
    /\ state_messages = <<>>
    /\ messages = <<>>
    /\ node = "none"
    /\ api_key \in ApiKeys
    /\ browser_manager = 0
    /\ managers = <<>>
    /\ browsers = <<>>
    /\ thr = [i \in 1..MaxCalls |-> Idle]
    /\ loop_running = FALSE
    /\ next_id = 1
    /\ commands = 0
    /\ tool_turns = 0
    /\ llm_calls = 0
    /\ facade_ops = 0
    /\ report = "banner"
    /\ interrupted = FALSE
    /\ prompt = <<>>
    /\ clear_mark = 1
    /\ page_url = "about:blank"
    /\ engine_calls = <<>>
    /\ fresult = NoResult
    /\ NoSite

browserVars == <<browser_manager, managers, browsers, loop_running>>
graphVars == <<messages, node, thr, tool_turns>>
countVars == <<llm_calls, facade_ops>>
facadeVars == <<page_url, engine_calls, fresult>>
siteVars == <<server_process, procs, port, form, message_class, pending,
              login_response, srv_result>>

\* input() returns an empty line: continue
EmptyInput(inp) ==
    /\ mainpc = "input"
    /\ Strip(inp) = ""
    /\ UNCHANGED vars

\* quit / exit: break
Quit(inp) ==
    /\ mainpc = "input"
    /\ Strip(inp) # ""
    /\ Lower(Strip(inp)) \in {"quit", "exit"}
    /\ mainpc' = "exited"
    /\ report' = "Goodbye"
    /\ UNCHANGED <<state_messages, api_key, next_id, commands, interrupted>>
    /\ UNCHANGED <<browserVars, graphVars, countVars>>
    /\ UNCHANGED <<prompt, clear_mark, facadeVars, siteVars>>

\* clear: state = get_initial_state()
Clear(inp) ==
    /\ mainpc = "input"
    /\ Strip(inp) # ""
    /\ Lower(Strip(inp)) \notin {"quit", "exit"}
    /\ Lower(Strip(inp)) = "clear"
    /\ state_messages' = <<>>
    /\ clear_mark' = next_id
    /\ report' = "Session cleared"
    /\ UNCHANGED <<mainpc, api_key, next_id, commands, interrupted>>
    /\ UNCHANGED <<browserVars, graphVars, countVars>>
    /\ UNCHANGED <<prompt, facadeVars, siteVars>>

\* any other line: run_agent(user_input, state) up to graph.invoke(state)
RunAgent(inp) ==
    /\ mainpc = "input"
    /\ commands < MaxCommands
    /\ Strip(inp) # ""
    /\ Lower(Strip(inp)) \notin {"quit", "exit", "clear"}
    /\ state_messages' = state_messages \o <<HumanMessage(next_id, Strip(inp))>>
    /\ messages' = add_messages(<<>>, state_messages')
    /\ next_id' = next_id + 1
    /\ node' = "agent"
    /\ mainpc' = "run"
    /\ commands' = commands + 1
    /\ tool_turns' = 0
    /\ llm_calls' = 0
    /\ facade_ops' = 0
    /\ report' = "Processing"
    /\ UNCHANGED <<api_key, thr, interrupted, browserVars>>
    /\ UNCHANGED <<prompt, clear_mark, facadeVars, siteVars>>

\* the ValueError of create_llm with no handler in __main__: the loop ends
DecideConfigError_Fatal ==
    /\ mainpc = "run"
    /\ node = "agent"
    /\ ~KeyConfigured(api_key)
    /\ node' = "none"
    /\ mainpc' = "exited"
    /\ report' = "Configuration Error"
    /\ UNCHANGED <<state_messages, messages, api_key, next_id, commands,
                   thr, tool_turns, interrupted, browserVars, countVars>>
    /\ UNCHANGED <<prompt, clear_mark, facadeVars, siteVars>>

\* agent_node: create_llm raises ValueError; __main__ reports it and goes on
DecideConfigError ==
    /\ mainpc = "run"
    /\ node = "agent"
    /\ ~KeyConfigured(api_key)
    /\ node' = "none"
    /\ mainpc' = "input"
    /\ report' = "Configuration Error"
    /\ UNCHANGED <<state_messages, messages, api_key, next_id, commands,
                   thr, tool_turns, interrupted, browserVars, countVars>>
    /\ UNCHANGED <<prompt, clear_mark, facadeVars, siteVars>>

\* agent_node catching the exception of llm.invoke and answering nothing
DecideLLMError_Swallowed ==
    /\ mainpc = "run"
    /\ node = "agent"
    /\ KeyConfigured(api_key)
    /\ llm_calls' = llm_calls + 1
    /\ prompt' = Prompt(messages)
    /\ messages' = add_messages(messages,
                                messages \o <<AIMessage(next_id, <<>>)>>)
    /\ next_id' = next_id + 1
    /\ node' = "end"
    /\ UNCHANGED <<mainpc, state_messages, api_key, commands, thr, tool_turns,
                   interrupted, report, browserVars, facade_ops>>
    /\ UNCHANGED <<clear_mark, facadeVars, siteVars>>

\* agent_node: llm.invoke raises; __main__ reports it and goes on
DecideLLMError ==
    /\ mainpc = "run"
    /\ node = "agent"
    /\ KeyConfigured(api_key)
    /\ llm_calls' = llm_calls + 1
    /\ prompt' = Prompt(messages)
    /\ node' = "none"
    /\ mainpc' = "input"
    /\ report' = "Error"
    /\ UNCHANGED <<state_messages, messages, api_key, next_id, commands,
                   thr, tool_turns, interrupted, browserVars, facade_ops>>
    /\ UNCHANGED <<clear_mark, facadeVars, siteVars>>

\* agent_node returns the response; should_continue picks the next node
Decide(calls) ==
    /\ mainpc = "run"
    /\ node = "agent"
    /\ KeyConfigured(api_key)
    /\ ServiceAccepts(api_key)
    /\ calls # <<>> => tool_turns < MaxToolTurns
    /\ llm_calls' = llm_calls + 1
    /\ prompt' = Prompt(messages)
    /\ messages' = add_messages(messages,
                                NodeOutput(messages, AIMessage(next_id, calls)))
    /\ next_id' = next_id + 1
    /\ node' = should_continue(messages')
    /\ UNCHANGED <<mainpc, state_messages, api_key, commands, thr, tool_turns,
                   interrupted, report, browserVars, facade_ops>>
    /\ UNCHANGED <<clear_mark, facadeVars, siteVars>>

\* graph.invoke returns; state = run_agent(...); the last message is printed
Return ==
    /\ mainpc = "run"
    /\ node = "end"
    /\ state_messages' = messages
    /\ node' = "none"
    /\ mainpc' = "input"
    /\ report' = "Agent Response"
    /\ UNCHANGED <<messages, api_key, next_id, commands, thr, tool_turns,
                   interrupted, browserVars, countVars>>
    /\ UNCHANGED <<prompt, clear_mark, facadeVars, siteVars>>

\* ToolNode hands every call of the last assistant message to a worker of
\* its pool; each worker calls its tool
ToolsDispatch ==
    /\ mainpc = "run"
    /\ node = "tools"
    /\ \A i \in 1..NCalls : thr[i].pc = "idle"
    /\ thr' = [i \in 1..MaxCalls |->
                 IF i <= NCalls THEN [pc |-> "called", result |-> ""] ELSE Idle]
    /\ UNCHANGED <<mainpc, state_messages, messages, node, api_key, next_id,
                   commands, tool_turns, interrupted, report, browserVars,
                   countVars>>
    /\ UNCHANGED <<prompt, clear_mark, facadeVars, siteVars>>

\* get_event_loop().run_until_complete raises RuntimeError
ToolBridgeError(i) ==
    /\ mainpc = "run"
    /\ node = "tools"
    /\ i \in 1..NCalls
    /\ thr[i].pc = "called"
    /\ Complete(i, "error")
    /\ UNCHANGED <<state_messages, messages, api_key, next_id, commands,
                   tool_turns, interrupted, browserVars, countVars>>
    /\ UNCHANGED <<prompt, clear_mark, facadeVars, siteVars>>

\* run_until_complete starts the coroutine of the tool
ToolBridge(i) ==
    /\ mainpc = "run"
    /\ node = "tools"
    /\ i \in 1..NCalls
    /\ thr[i].pc = "called"
    /\ ~loop_running
    /\ loop_running' = TRUE
    /\ thr' = [thr EXCEPT ![i].pc = "coro"]
    /\ UNCHANGED <<mainpc, state_messages, messages, node, api_key, next_id,
                   commands, tool_turns, interrupted, report, browser_manager,
                   managers, browsers, countVars>>
    /\ UNCHANGED <<prompt, clear_mark, facadeVars, siteVars>>

\* an adapter that calls the operation a second time when it failed
FacadeCalls_Retry(called, ok) == IF called THEN (IF ok THEN 1 ELSE 2) ELSE 0

\* the BrowserManager operations one adapter call performs: the single
\* `await manager.<operation>(...)` of its body, reached when
\* ensure_browser_initialized returned
FacadeCalls(called, ok) == IF called THEN 1 ELSE 0

\* the coroutine of a page tool: ensure_browser_initialized, then the
\* BrowserManager operation; stage is how far initialize gets, ok whether
\* the engine call of the operation succeeds
PageTool(i, stage, ok) ==
    /\ mainpc = "run"
    /\ node = "tools"
    /\ i \in 1..NCalls
    /\ thr[i].pc = "coro"
    /\ LastCalls[i] \in PageTools
    /\ LET created == browser_manager = 0
           mid == IF created THEN Len(managers) + 1 ELSE browser_manager
           ms == IF created THEN Append(managers, NewManager) ELSE managers
           init == NeedsInitialize(ms[mid])
           st == IF init THEN stage ELSE 4
           launched == init /\ st >= 2
           b == Len(browsers) + 1
           m == IF init THEN Initialize(ms[mid], st, b) ELSE ms[mid]
           called == st = 4
           engine == called /\ PageReady(m)
           result == IF engine /\ m.page = "open" /\ ok THEN "ok" ELSE "error"
       IN /\ init \/ stage = 4
          /\ (engine /\ m.page = "open") \/ ok
          /\ browser_manager' = mid
          /\ managers' = [ms EXCEPT ![mid] = m]
          /\ browsers' = IF launched THEN Append(browsers, "open") ELSE browsers
          /\ facade_ops' = facade_ops + FacadeCalls(called, ok)
          /\ Complete(i, result)
    /\ loop_running' = FALSE
    /\ UNCHANGED <<state_messages, messages, api_key, next_id, commands,
                   tool_turns, interrupted, llm_calls>>
    /\ UNCHANGED <<prompt, clear_mark, facadeVars, siteVars>>

\* the coroutine of close_browser
CloseBrowser(i) ==
    /\ mainpc = "run"
    /\ node = "tools"
    /\ i \in 1..NCalls
    /\ thr[i].pc = "coro"
    /\ LastCalls[i] = "close_browser"
    /\ IF browser_manager # 0
       THEN /\ managers' = [managers EXCEPT
                               ![browser_manager] = Close(managers[browser_manager])]
            /\ browsers' = CloseBrowsers(managers[browser_manager], browsers)
            /\ browser_manager' = ClearedManager(browser_manager)
            /\ facade_ops' = facade_ops + 1
       ELSE UNCHANGED <<managers, browsers, browser_manager, facade_ops>>
    /\ Complete(i, "ok")
    /\ loop_running' = FALSE
    /\ UNCHANGED <<state_messages, messages, api_key, next_id, commands,
                   tool_turns, interrupted, llm_calls>>
    /\ UNCHANGED <<prompt, clear_mark, facadeVars, siteVars>>

\* every worker is done: ToolNode returns the tool messages, in call order,
\* and the edge tools -> agent is taken
ToolsJoin ==
    /\ mainpc = "run"
    /\ node = "tools"
    /\ \A i \in 1..NCalls : thr[i].pc = "done"
    /\ messages' = add_messages(messages,
                     ToolMessages(Last(messages).id, 1, NCalls, next_id))
    /\ next_id' = next_id + NCalls
    /\ thr' = [i \in 1..MaxCalls |-> Idle]
    /\ tool_turns' = tool_turns + 1
    /\ node' = "agent"
    /\ UNCHANGED <<mainpc, state_messages, api_key, commands, interrupted,
                   report, browserVars, countVars>>
    /\ UNCHANGED <<prompt, clear_mark, facadeVars, siteVars>>

\* KeyboardInterrupt at input() or inside run_agent: print and break
Interrupt ==
    /\ mainpc \in {"input", "run"}
    /\ mainpc' = "exited"
    /\ interrupted' = TRUE
    /\ report' = "Interrupted"
    /\ UNCHANGED <<state_messages, api_key, next_id, commands>>
    /\ UNCHANGED <<browserVars, graphVars, countVars>>
    /\ UNCHANGED <<prompt, clear_mark, facadeVars, siteVars>>

Next ==
    \/ \E inp \in RawInputs : EmptyInput(inp)
    \/ \E inp \in RawInputs : Quit(inp)
    \/ \E inp \in RawInputs : Clear(inp)
    \/ \E inp \in RawInputs : RunAgent(inp)
    \/ DecideConfigError
    \/ DecideLLMError
    \/ \E calls \in CallSeqs(MaxCalls) : Decide(calls)
    \/ Return
    \/ ToolsDispatch
    \/ \E i \in 1..MaxCalls : ToolBridgeError(i)
    \/ \E i \in 1..MaxCalls : ToolBridge(i)
    \/ \E i \in 1..MaxCalls, stage \in 0..4, ok \in BOOLEAN : PageTool(i, stage, ok)
    \/ \E i \in 1..MaxCalls : CloseBrowser(i)
    \/ ToolsJoin
    \/ Interrupt

\* a step of graph.invoke: the interpreter runs the nodes and the workers of
\* the tools node; llm.invoke and every tool call return or raise
GraphStep ==
    \/ DecideConfigError
    \/ DecideLLMError
    \/ \E calls \in CallSeqs(MaxCalls) : Decide(calls)
    \/ Return
    \/ ToolsDispatch
    \/ \E i \in 1..MaxCalls : ToolBridgeError(i)
    \/ \E i \in 1..MaxCalls : ToolBridge(i)
    \/ \E i \in 1..MaxCalls, stage \in 0..4, ok \in BOOLEAN : PageTool(i, stage, ok)
    \/ \E i \in 1..MaxCalls : CloseBrowser(i)
    \/ ToolsJoin

Spec == Init /\ [][Next]_vars

\* the interactive loop with a graph that keeps running once invoked
SpecLive == Init /\ [][Next]_vars /\ WF_vars(GraphStep)

-----------------------------------------------------------------------------
(* A BrowserManager driven directly, as test_browser_tools drives one *)

agentVars == <<mainpc, state_messages, messages, node, api_key, browser_manager,
               thr, loop_running, next_id, commands, tool_turns, llm_calls,
               facade_ops, report, interrupted, prompt, clear_mark>>

InitBM ==
    /\ mainpc = "input"
    /\ state_messages = <<>>
    /\ messages = <<>>
    /\ node = "none"
    /\ api_key = "None"
    /\ browser_manager = 0
    /\ managers = <<NewManager>>
    /\ browsers = <<>>
    /\ thr = [i \in 1..MaxCalls |-> Idle]
    /\ loop_running = FALSE
    /\ next_id = 1
    /\ commands = 0
    /\ tool_turns = 0
    /\ llm_calls = 0
    /\ facade_ops = 0
    /\ report = "banner"
    /\ interrupted = FALSE
    /\ prompt = <<>>
    /\ clear_mark = 1
    /\ page_url = "about:blank"
    /\ engine_calls = <<>>
    /\ fresult = NoResult
    /\ NoSite

InitializeCalls ==
    <<"playwright.start", "chromium.launch", "browser.new_context",
      "context.new_page">>

\* manager.initialize(), with `stage` of its engine calls done before one raises
BMInitialize(stage) ==
    /\ NeedsInitialize(managers[1])
    /\ managers' = <<Initialize(managers[1], stage, Len(browsers) + 1)>>
    /\ browsers' = IF stage >= 2 THEN Append(browsers, "open") ELSE browsers
    /\ page_url' = IF stage = 4 THEN "about:blank" ELSE page_url
    /\ engine_calls' = SubSeq(InitializeCalls, 1, IF stage < 4 THEN stage + 1 ELSE 4)
    /\ fresult' = Result("initialize", managers[1], "", <<>>,
                         IF stage < 4 THEN "Error" ELSE "", stage = 4, FALSE,
                         <<>>, FALSE, "")
    /\ UNCHANGED <<agentVars, siteVars>>

\* manager.close()
BMClose ==
    LET m == managers[1]
        calls == CloseCalls(m)
        raised == IF ReleaseOnNone(m, calls) THEN "AttributeError" ELSE ""
    IN /\ managers' = IF raised = "" THEN <<Close(m)>> ELSE managers
       /\ browsers' = IF raised = "" THEN CloseBrowsers(m, browsers) ELSE browsers
       /\ engine_calls' = calls
       /\ fresult' = Result("close", m, "", <<>>, raised, raised = "", FALSE,
                            <<>>, FALSE, "")
       /\ UNCHANGED <<page_url, agentVars, siteVars>>

\* an operation on the page: its outcome is recorded
Apply(out) ==
    /\ fresult' = out.res
    /\ engine_calls' = out.calls
    /\ page_url' = out.url
    /\ UNCHANGED <<managers, browsers, agentVars, siteVars>>

BMNavigate(url, ok) == Apply(navigate(managers[1], page_url, url, ok))

BMClick(sel) == Apply(click(managers[1], page_url, sel))

BMFill(sel) == Apply(fill(managers[1], page_url, sel))

BMGetText(sel) == Apply(get_text(managers[1], page_url, sel))

BMVerifyExists(sel) == Apply(verify_element_exists(managers[1], page_url, sel))

BMVerifyText(sel, expected) ==
    Apply(verify_text_content(managers[1], page_url, sel, expected))

BMScreenshot(ok) == Apply(screenshot(managers[1], page_url, ok))

BMWait(sel) == Apply(wait_for_selector(managers[1], page_url, sel))

BMGetPageInfo == Apply(get_page_info(managers[1], page_url))

NextBM ==
    \/ \E stage \in 0..4 : BMInitialize(stage)
    \/ BMClose
    \/ \E url \in Urls, ok \in BOOLEAN : BMNavigate(url, ok)
    \/ \E sel \in Selectors : BMClick(sel)
    \/ \E sel \in Selectors : BMFill(sel)
    \/ \E sel \in Selectors : BMGetText(sel)
    \/ \E sel \in Selectors : BMVerifyExists(sel)
    \/ \E sel \in Selectors, expected \in ExpectedTexts : BMVerifyText(sel, expected)
    \/ \E ok \in BOOLEAN : BMScreenshot(ok)
    \/ \E sel \in Selectors : BMWait(sel)
    \/ BMGetPageInfo

SpecBM == InitBM /\ [][NextBM]_vars

-----------------------------------------------------------------------------
(* start_flask_server and stop_flask_server *)

pageVars == <<page_url, form, message_class, pending, login_response>>

serverVars == <<server_process, procs, port, srv_result>>

otherVars == <<agentVars, managers, browsers, engine_calls, fresult>>

\* no agent runs and no BrowserManager is used
NoAgent ==
    /\ mainpc = "input"
    /\ state_messages = <<>>
    /\ messages = <<>>
    /\ node = "none"
    /\ api_key = "None"
    /\ browser_manager = 0
    /\ managers = <<NewManager>>
    /\ browsers = <<>>
    /\ thr = [i \in 1..MaxCalls |-> Idle]
    /\ loop_running = FALSE
    /\ next_id = 1
    /\ commands = 0
    /\ tool_turns = 0
    /\ llm_calls = 0
    /\ facade_ops = 0
    /\ report = "banner"
    /\ interrupted = FALSE
    /\ prompt = <<>>
    /\ clear_mark = 1
    /\ engine_calls = <<>>
    /\ fresult = NoResult

InitSrv ==
    /\ NoAgent
    /\ page_url = "about:blank"
    /\ NoSite

StartOutcomes == {"popen_error", "bound", "timeout", "crashed", "taken"}

\* start_flask_server(); outcome is what happens after the port was found
\* free: Popen raises, the process binds the port within the wait, it does
\* not within the wait, it exits, or another server takes the port first
StartFlaskServer(outcome) ==
    LET new == Len(procs) + 1
    IN /\ IF is_port_in_use(port)
          THEN /\ outcome = "bound"
               /\ srv_result' = SrvResult("start", TRUE, FALSE, 0)
               /\ UNCHANGED <<server_process, procs, port>>
          ELSE IF outcome = "popen_error"
          THEN /\ srv_result' = SrvResult("start", FALSE, FALSE, 0)
               /\ UNCHANGED <<server_process, procs, port>>
          ELSE /\ Len(procs) < MaxSpawns
               /\ server_process' = new
               /\ procs' = Append(procs,
                              CASE outcome = "bound" -> "listening"
                                [] outcome = "timeout" -> "starting"
                                [] OTHER -> "exited")
               /\ port' = CASE outcome = "bound" -> Spawned(new)
                            [] outcome = "taken" -> ExternalServer
                            [] OTHER -> port
               /\ srv_result' = SrvResult("start", outcome \in {"bound", "taken"}, TRUE, 0)
       /\ UNCHANGED <<otherVars, pageVars>>

\* stop_flask_server(); freed: the port is released when the process ends
\* (a child of the debug reloader may keep it)
StopFlaskServer(freed) ==
    /\ pending = "none"
    /\ IF server_process # 0
       THEN /\ procs' = [procs EXCEPT ![server_process] = "exited"]
            /\ port' = IF port = Spawned(server_process) /\ freed
                       THEN FreePort ELSE port
            /\ port = Spawned(server_process) \/ freed
            /\ server_process' = 0
       ELSE /\ freed
            /\ UNCHANGED <<server_process, procs, port>>
    /\ srv_result' = SrvResult("stop", TRUE, FALSE, server_process)
    /\ UNCHANGED <<otherVars, pageVars>>

\* somebody runs `python app.py`
ExternalStarts ==
    /\ port = FreePort
    /\ port' = ExternalServer
    /\ UNCHANGED <<otherVars, pageVars, server_process, procs, srv_result>>

\* and ends it
ExternalStops ==
    /\ pending = "none"
    /\ port = ExternalServer
    /\ port' = FreePort
    /\ UNCHANGED <<otherVars, pageVars, server_process, procs, srv_result>>

\* a spawned process that was slow binds the port after the wait
ProcBinds(k) ==
    /\ k \in DOMAIN procs
    /\ procs[k] = "starting"
    /\ port = FreePort
    /\ procs' = [procs EXCEPT ![k] = "listening"]
    /\ port' = Spawned(k)
    /\ UNCHANGED <<otherVars, pageVars, server_process, srv_result>>

\* a spawned process ends by itself
ProcExits(k) ==
    /\ pending = "none"
    /\ k \in DOMAIN procs
    /\ procs[k] # "exited"
    /\ procs' = [procs EXCEPT ![k] = "exited"]
    /\ port' = IF port = Spawned(k) THEN FreePort ELSE port
    /\ UNCHANGED <<otherVars, pageVars, server_process, srv_result>>

NextSrv ==
    \/ \E outcome \in StartOutcomes : StartFlaskServer(outcome)
    \/ \E freed \in BOOLEAN : StopFlaskServer(freed)
    \/ ExternalStarts
    \/ ExternalStops
    \/ \E k \in 1..MaxSpawns : ProcBinds(k)
    \/ \E k \in 1..MaxSpawns : ProcExits(k)

SpecSrv == InitSrv /\ [][NextSrv]_vars

-----------------------------------------------------------------------------
(* The login scenario of the test suite against the sample application *)

\* start_flask_server returned True: a server somebody else runs, or the
\* process it spawned, listens
InitSite ==
    /\ NoAgent
    /\ page_url = "about:blank"
    /\ form = EmptyForm
    /\ message_class = ""
    /\ pending = "none"
    /\ login_response = NoResponse
    /\ \/ /\ port = ExternalServer
          /\ procs = <<>>
          /\ server_process = 0
          /\ srv_result = SrvResult("start", TRUE, FALSE, 0)
       \/ /\ port = Spawned(1)
          /\ procs = <<"listening">>
          /\ server_process = 1
          /\ srv_result = SrvResult("start", TRUE, TRUE, 0)

\* page.goto(base_url), once the page is at rest
SiteGoto ==
    /\ pending = "none"
    /\ is_port_in_use(port)
    /\ page_url' = LOGIN
    /\ form' = EmptyForm
    /\ message_class' = ""
    /\ UNCHANGED <<pending, login_response, otherVars, serverVars>>

\* page.fill("#username" / "#password", value)
SiteFill(field, value) ==
    /\ pending = "none"
    /\ page_url = LOGIN
    /\ form' = [form EXCEPT ![field] = value]
    /\ UNCHANGED <<page_url, message_class, pending, login_response, otherVars,
                   serverVars>>

\* page.click("#loginBtn")
SiteClickLogin ==
    /\ pending = "none"
    /\ page_url = LOGIN
    /\ is_port_in_use(port)
    /\ pending' = IF Submits(form) THEN "request" ELSE pending
    /\ message_class' = IF Submits(form) THEN "" ELSE message_class
    /\ UNCHANGED <<page_url, form, login_response, otherVars, serverVars>>

\* the server answers the POST of the form and the page shows the message
Respond ==
    /\ pending = "request"
    /\ login_response' = login(form.username, form.password)
    /\ message_class' = IF login_response'.success THEN "success" ELSE "error"
    /\ pending' = IF login_response'.success THEN "redirect" ELSE "none"
    /\ UNCHANGED <<page_url, form, otherVars, serverVars>>

\* the page goes to /dashboard after a successful login
Redirect ==
    /\ pending = "redirect"
    /\ page_url' = DASHBOARD
    /\ form' = EmptyForm
    /\ message_class' = ""
    /\ pending' = "none"
    /\ UNCHANGED <<login_response, otherVars, serverVars>>

\* page.click(".logout-btn") on the dashboard
SiteLogout ==
    /\ pending = "none"
    /\ page_url = DASHBOARD
    /\ is_port_in_use(port)
    /\ page_url' = LOGIN
    /\ UNCHANGED <<form, message_class, pending, login_response, otherVars,
                   serverVars>>

\* any client posting to /login
PostLogin(username, password) ==
    /\ is_port_in_use(port)
    /\ pending = "none"
    /\ login_response' = login(username, password)
    /\ UNCHANGED <<page_url, form, message_class, pending, otherVars, serverVars>>

NextSite ==
    \/ SiteGoto
    \/ \E field \in {"username", "password"}, value \in Typed : SiteFill(field, value)
    \/ SiteClickLogin
    \/ Respond
    \/ Redirect
    \/ SiteLogout
    \/ \E username \in FieldValues, password \in FieldValues :
          PostLogin(username, password)

\* the server answers every request and the browser runs the page's script
SpecSite == InitSite /\ [][NextSite]_vars /\ WF_vars(Respond) /\ WF_vars(Redirect)

-----------------------------------------------------------------------------
(* Steps, as the claims speak of them *)

RunStarts == mainpc = "input" /\ mainpc' = "run"

DecideStep == mainpc = "run" /\ node = "agent" /\ node' \in {"tools", "end"}

DecideFails == mainpc = "run" /\ node = "agent" /\ mainpc' = "input"

ActEnds == mainpc = "run" /\ node = "tools" /\ mainpc' = "run" /\ node' # "tools"

Returns == mainpc = "run" /\ node = "end" /\ mainpc' = "input"

CallEnds(i) == thr[i].pc \in {"called", "coro"} /\ thr'[i].pc \notin {"called", "coro"}

CoroEnds(i, tools) ==
    thr[i].pc = "coro" /\ LastCalls[i] \in tools /\ thr'[i].pc # "coro"

Requests(m) == IF m.type = "ai" THEN Len(m.tool_calls) ELSE 0

SampleMessages ==
    {HumanMessage(1, "open the login page"), AIMessage(2, <<>>),
     AIMessage(3, <<"navigate_to_url">>),
     AIMessage(4, <<"navigate_to_url", "close_browser">>),
     ToolMessage(5, 3, 1, "ok"), ToolMessage(6, 3, 1, "error")}

SampleTranscripts == UNION {[1..k -> SampleMessages] : k \in 0..2}

-----------------------------------------------------------------------------
(* C1: the loop starts in decide; after a decide step should_continue goes  *)
(* to act exactly when the last message carries at least one tool request  *)
(* and otherwise (empty transcript, no or empty tool_calls) halts and the  *)
(* state is returned; an act step is followed by decide; the loop halts    *)
(* only directly after a decide step.                                      *)
C1_Routing ==
    /\ \A t \in SampleTranscripts :
          should_continue(t) = IF t # <<>> /\ Requests(Last(t)) >= 1
                               THEN "tools" ELSE "end"
    /\ [][/\ RunStarts => node' = "agent"
          /\ DecideStep => /\ node' = "tools" <=> Requests(Last(messages')) >= 1
                           /\ node' = "end" <=> Requests(Last(messages')) = 0
          /\ ActEnds => node' = "agent"
          /\ node' = "end" => node \in {"agent", "end"}
          /\ Returns => state_messages' = messages /\ messages' = messages
          /\ (mainpc = "run" /\ node = "tools") => ~Returns]_vars

C1_Witness ==
    /\ mainpc = "input"
    /\ report = "Agent Response"
    /\ tool_turns = 1
    /\ Len(state_messages) >= 4
    /\ Requests(Last(state_messages)) = 0

(* C2: an assistant message with n >= 1 tool requests is followed by       *)
(* exactly n tool messages, one per request and in request order, before   *)
(* the next decide step; decide never runs while a request of the last     *)
(* assistant message has no result.                                        *)
Answered(msgs, p) ==
    LET n == Requests(msgs[p])
    IN /\ Len(msgs) >= p + n
       /\ \A k \in 1..n : /\ msgs[p + k].type = "tool"
                          /\ msgs[p + k].tool_call_id = <<msgs[p].id, k>>
       /\ Len(msgs) > p + n => msgs[p + n + 1].type # "tool"

C2_OneResultPerRequest ==
    /\ \A p \in 1..Len(messages) :
          Requests(messages[p]) >= 1 =>
             \/ Answered(messages, p)
             \/ p = Len(messages) /\ node = "tools"
    /\ \A p \in 1..Len(state_messages) :
          Requests(state_messages[p]) >= 1 => Answered(state_messages, p)
    /\ \A p \in 1..Len(messages) :
          messages[p].type = "tool" =>
             \E q \in 1..(p - 1) : /\ messages[q].id = messages[p].tool_call_id[1]
                                   /\ p - q = messages[p].tool_call_id[2]
    /\ (node = "agent" /\ messages # <<>>) => Requests(Last(messages)) = 0

C2_Witness ==
    /\ node = "agent"
    /\ Len(messages) >= 4
    /\ Requests(messages[Len(messages) - 2]) = 2
    /\ Last(messages).type = "tool"

(* C3: the tool invocations of one assistant turn run strictly one after   *)
(* another: never two tool invocations, nor two BrowserManager operations, *)
(* in flight at the same time.                                             *)
C3_OneInvocationAtATime ==
    /\ Cardinality(InFlight) <= 1
    /\ Cardinality(InFacade) <= 1

(* C4: at most one browser session is alive in any reachable state, also   *)
(* after close_browser and further tool calls.                             *)
C4_OneSession ==
    /\ Cardinality(OpenBrowsers) <= 1
    /\ Cardinality({m \in 1..Len(managers) :
                       managers[m].browser \in OpenBrowsers}) <= 1

C4_Witness ==
    /\ Len(browsers) = 2
    /\ browsers[1] = "closed"
    /\ browsers[2] = "open"
    /\ browser_manager # 0
    /\ managers[browser_manager].page = "open"

(* C5: the session is created lazily and persists: a browser is launched   *)
(* only by a page tool call made when no session exists (not by run_agent, *)
(* a decide step or close_browser), a later tool call and a later          *)
(* run_agent call reuse it, and only close_browser tears it down.          *)
C5_LazyPersistent ==
    [][/\ Len(browsers') > Len(browsers) =>
             /\ \E i \in 1..MaxCalls : CoroEnds(i, PageTools)
             /\ OpenBrowsers = {}
             /\ Len(browsers') = Len(browsers) + 1
       /\ (\E b \in OpenBrowsers : browsers'[b] # "open") =>
             \E i \in 1..MaxCalls : CoroEnds(i, {"close_browser"})
       /\ ((\E i \in 1..MaxCalls : CoroEnds(i, PageTools)) /\ OpenBrowsers # {}) =>
             /\ browsers' = browsers
             /\ browser_manager' = browser_manager
             /\ managers' = managers
       /\ ((\E i \in 1..MaxCalls : CoroEnds(i, {"close_browser"}))
              /\ browser_manager = 0) =>
             /\ browsers' = browsers
             /\ managers' = managers
       /\ (RunStarts \/ DecideStep \/ DecideFails \/ Returns \/ mainpc = "input") =>
             /\ browsers' = browsers
             /\ managers' = managers
             /\ browser_manager' = browser_manager]_vars

C5_Witness ==
    /\ commands = 2
    /\ facade_ops >= 1
    /\ Len(browsers) = 1
    /\ browsers[1] = "open"
    /\ \E i \in 1..MaxCalls : thr[i] = [pc |-> "done", result |-> "ok"]

(* C6: close_browser on an existing session closes it and clears the       *)
(* global reference, and the next browser tool call constructs and         *)
(* initializes a fresh BrowserManager instead of using the closed one.     *)
C6_CloseClears ==
    [][/\ ((\E i \in 1..MaxCalls : CoroEnds(i, {"close_browser"}))
              /\ browser_manager # 0) =>
             /\ browser_manager' = 0
             /\ managers'[browser_manager].page # "open"
             /\ managers'[browser_manager].context # "open"
             /\ managers'[browser_manager].playwright # "started"
             /\ managers[browser_manager].browser # 0 =>
                   browsers'[managers[browser_manager].browser] = "closed"
       /\ ((\E i \in 1..MaxCalls : CoroEnds(i, PageTools))
              /\ browser_manager = 0) =>
             /\ browser_manager' = Len(managers) + 1
             /\ Len(managers') = Len(managers) + 1
             /\ managers'[browser_manager'].browser \in {0, Len(browsers) + 1}
             /\ managers'[browser_manager'].page \in {"None", "open"}
       /\ browser_manager' # 0 =>
             /\ managers'[browser_manager'].page # "closed"
             /\ managers'[browser_manager'].browser # 0 =>
                   browsers'[managers'[browser_manager'].browser] = "open"]_vars

C6_Witness ==
    /\ Len(managers) = 2
    /\ browser_manager = 2
    /\ managers[1].page = "closed"
    /\ managers[2].page = "open"
    /\ \E i \in 1..MaxCalls : thr[i] = [pc |-> "done", result |-> "ok"]

(* C7: when the LLM invocation of a decide step fails, no act step and no  *)
(* further decide step runs, the error reaches the caller of run_agent,    *)
(* and the transcript holds exactly the messages it held when the failing  *)
(* decide step began.                                                      *)
NoAI(msgs) == \A p \in 1..Len(msgs) : msgs[p].type = "human"

Unconfigured == api_key \in {"None", "", "your_openai_api_key_here"}

C8_FailFast ==
    /\ [](Unconfigured =>
             /\ llm_calls = 0
             /\ facade_ops = 0
             /\ managers = <<>> /\ browsers = <<>> /\ browser_manager = 0
             /\ \A i \in 1..MaxCalls : thr[i].pc = "idle"
             /\ NoAI(messages))
    /\ [][(Unconfigured /\ mainpc = "run" /\ mainpc' # "exited") =>
             (mainpc' = "input" /\ report' = "Configuration Error")]_vars

C8_Witness ==
    /\ Unconfigured
    /\ commands = 2
    /\ mainpc = "input"
    /\ report = "Configuration Error"

(* C9: a tool invocation that raises during an act step does not abort the *)
(* loop: a tool message carrying the error is appended for that request    *)
(* and control returns to decide.                                          *)
C9_ToolErrorRecoverable ==
    [][/\ \A i \in 1..MaxCalls :
             (CallEnds(i) /\ mainpc' # "exited") =>
                /\ thr'[i].pc = "done"
                /\ thr'[i].result \in {"ok", "error"}
                /\ mainpc' = "run" /\ node' = "tools"
       /\ ActEnds =>
             /\ node' = "agent"
             /\ Len(messages') = Len(messages) + NCalls
             /\ \A k \in 1..NCalls :
                   LET t == messages'[Len(messages) + k]
                   IN /\ t.tool_call_id = <<Last(messages).id, k>>
                      /\ t.content = thr[k].result
                      /\ thr[k].result = "error" => t.status = "error"]_vars

C9_Witness ==
    /\ mainpc = "run"
    /\ node = "end"
    /\ Len(messages) >= 4
    /\ messages[Len(messages) - 1].type = "tool"
    /\ messages[Len(messages) - 1].status = "error"
    /\ Last(messages).type = "ai"

(* C10: a KeyboardInterrupt in the interactive loop tears the browser      *)
(* session down before the process exits: the process never exits after an *)
(* interrupt with an initialized session that was not closed.              *)
C10_TeardownOnInterrupt ==
    (mainpc = "exited" /\ interrupted) => OpenBrowsers = {}

-----------------------------------------------------------------------------
(* Transcript and interactive loop *)

IsPrefix(a, b) == Len(a) <= Len(b) /\ SubSeq(b, 1, Len(a)) = a

\* the transcript of the session: the state of the graph during a command,
\* the state the loop holds between commands
Transcript == IF mainpc = "run" THEN messages ELSE state_messages

ClearStep == mainpc = "input" /\ report' = "Session cleared"

(* C11: within one session the transcript is append-only: a step that is   *)
(* not a clear (and does not end the session) leaves every earlier message *)
(* in place, with its content and position, and only appends.              *)
C11_AppendOnly ==
    [][(~ClearStep /\ mainpc' # "exited") => IsPrefix(Transcript, Transcript')]_vars

(* C12: a command that fails with a configuration error or another         *)
(* exception is reported and the loop awaits the next input; the loop is   *)
(* left only by quit/exit (Goodbye) or by an operator interrupt.           *)
C12_LoopContinues ==
    /\ report \in {"Configuration Error", "Error"} => mainpc = "input"
    /\ mainpc = "exited" => report \in {"Goodbye", "Interrupted"}
    /\ report = "Interrupted" <=> interrupted

\* a second command is running after the first one failed at its decide step
C12_Witness ==
    /\ mainpc = "run"
    /\ commands = 2
    /\ clear_mark = 1
    /\ Len(state_messages) = 2
    /\ \A k \in 1..2 : state_messages[k].type = "human"

\* the spellings of the reserved tokens among the lines the operator types
ReservedLines == {"quit", "exit", "clear", "EXIT", "Clear"}

Commands(msgs) == {msgs[k].content : k \in {j \in DOMAIN msgs : msgs[j].type = "human"}}

AfterClear(msgs) == \A k \in DOMAIN msgs : msgs[k].id >= clear_mark

\* the prompt variable holds the prompt of the decide step just taken
PromptFresh == mainpc = "run" /\ node \in {"tools", "end"}

(* C13: clear empties the transcript, the prompt of a later command holds  *)
(* no message from before the clear (only the system message and messages  *)
(* created after it), and no reserved token in any letter case and no      *)
(* empty line is ever a command of the agent.                              *)
C13_ClearResets ==
    /\ report = "Session cleared" => (mainpc = "input" /\ state_messages = <<>>)
    /\ AfterClear(state_messages)
    /\ mainpc = "run" => AfterClear(messages)
    /\ PromptFresh =>
          /\ prompt = Prompt(SubSeq(messages, 1, Len(messages) - 1))
          /\ AfterClear(Tail(prompt))
    /\ Commands(state_messages) \cap (ReservedLines \cup {"", "  "}) = {}
    /\ mainpc = "run" => Commands(messages) \cap (ReservedLines \cup {"", "  "}) = {}

\* a command after a clear that followed an earlier command: its prompt is
\* the system message and the new command only
C13_Witness ==
    /\ PromptFresh
    /\ clear_mark > 1
    /\ Len(prompt) = 2
    /\ prompt[1] = SystemMessage
    /\ prompt[2].type = "human"

-----------------------------------------------------------------------------
(* BrowserManager *)

CloseOrder == <<"page.close", "context.close", "browser.close", "playwright.stop">>

Held(m, c) ==
    CASE c = "page.close" -> m.page # "None"
      [] c = "context.close" -> m.context # "None"
      [] c = "browser.close" -> m.browser # 0
      [] OTHER -> m.playwright # "None"

Releases(m) == SelectSeq(CloseOrder, LAMBDA c : Held(m, c))

(* C14: close() releases page, context, browser and engine handle in that  *)
(* order, skipping what is None; it never raises, on a never-initialized   *)
(* manager or twice in a row, and a second close in a row leaves the       *)
(* manager as the first left it.                                           *)
C14_CloseIdempotent ==
    [][fresult'.op = "close" =>
          /\ fresult'.raised = ""
          /\ engine_calls' = Releases(managers[1])
          /\ managers'[1].page # "open" /\ managers'[1].context # "open"
          /\ managers'[1].playwright # "started"
          /\ \A b \in DOMAIN browsers' : browsers'[b] = "closed"
          /\ fresult.op = "close" => (managers' = managers /\ browsers' = browsers)
      ]_vars

\* close() of a fully initialized manager has made its four releases
C14_Witness ==
    /\ fresult.op = "close"
    /\ fresult.page = "open"
    /\ engine_calls = CloseOrder
    /\ managers[1].page = "closed"

PageOps ==
    {"navigate", "click", "fill", "get_text", "verify_element_exists",
     "verify_text_content", "screenshot", "wait_for_selector", "get_page_info"}

(* C15: each of the nine page operations, called on a manager whose page   *)
(* was never created, raises the not-initialized error, makes no engine    *)
(* call and leaves the manager, the browsers and the page as they were.    *)
C15_NotInitialized ==
    [][(fresult'.op \in PageOps /\ managers[1].page = "None") =>
          /\ fresult'.raised = NOT_INITIALIZED
          /\ engine_calls' = <<>>
          /\ managers' = managers
          /\ browsers' = browsers
          /\ page_url' = page_url]_vars

\* an operation refused on a manager whose initialize stopped before the page
C15_Witness ==
    /\ fresult.op = "verify_text_content"
    /\ fresult.raised = NOT_INITIALIZED
    /\ managers[1].browser # 0
    /\ managers[1].page = "None"
    /\ engine_calls = <<>>

(* C16: on an initialized manager wait_for_selector never raises: it       *)
(* returns success exactly when the element appears, otherwise a failure   *)
(* result carrying the error, which the wait_for_element adapter returns   *)
(* as a status text.                                                       *)
C16_WaitNeverRaises ==
    [][(fresult'.op = "wait_for_selector" /\ managers[1].page # "None") =>
          /\ fresult'.raised = ""
          /\ fresult'.success <=>
                (/\ managers[1].page = "open"
                 /\ ValidSelector(fresult'.selector)
                 /\ Present(page_url, fresult'.selector))
          /\ ~fresult'.success => fresult'.error # ""
          /\ AdapterReturn(fresult') =
                IF fresult'.success THEN "appeared on the page"
                ELSE "Timeout waiting for element"]_vars

\* a wait on an open page for an element that never appears
C16_Witness ==
    /\ fresult.op = "wait_for_selector"
    /\ fresult.page = "open"
    /\ fresult.selector = "#missing"
    /\ ~fresult.success
    /\ fresult.error # ""
    /\ fresult.raised = ""

(* C17: verify_element_exists on an open page never raises, whatever the   *)
(* selector, valid or not, and leaves the manager, the browsers and the    *)
(* URL of the page unchanged.                                              *)
C17_ExistsNeverRaises ==
    [][(fresult'.op = "verify_element_exists" /\ managers[1].page = "open") =>
          /\ fresult'.raised = ""
          /\ managers' = managers
          /\ browsers' = browsers
          /\ page_url' = page_url]_vars

(* C18, as stated: get_text with a selector that matches no element        *)
(* returns the empty string and raises in no state of an initialized       *)
(* manager.                                                                *)
C18_NeverRaises ==
    [][(/\ fresult'.op = "get_text"
        /\ managers[1].page # "None"
        /\ ~Present(page_url, fresult'.selector)) =>
          (fresult'.raised = "" /\ fresult'.text = <<>>)]_vars

(* C18, amended: on an open page, get_text with a selector the engine can  *)
(* parse and that matches no element returns the empty string and does not *)
(* raise, and the get_page_text adapter returns its status text.           *)
C18_SoftFail ==
    [][(/\ fresult'.op = "get_text"
        /\ managers[1].page = "open"
        /\ ValidSelector(fresult'.selector)
        /\ ~Present(page_url, fresult'.selector)) =>
          /\ fresult'.raised = ""
          /\ fresult'.text = <<>>
          /\ AdapterReturn(fresult') = "Text content of"]_vars

\* the text of a missing element was read on an open page
C18_Witness ==
    /\ fresult.op = "get_text"
    /\ fresult.page = "open"
    /\ fresult.selector = "#missing"
    /\ fresult.raised = ""
    /\ fresult.text = <<>>

(* C19: verify_text_content returns match = true exactly when expected,    *)
(* compared case-insensitively, is a substring of the text get_text        *)
(* returns, for every input, the empty expected text and the empty or      *)
(* missing element included.                                               *)
C19_MatchIsSubstring ==
    (fresult.op = "verify_text_content" /\ fresult.raised = "") =>
        (fresult.match <=>
            Contains(str_lower(fresult.expected), str_lower(fresult.text)))

-----------------------------------------------------------------------------
(* Adapter calls and facade operations *)

RECURSIVE RequestsIn(_)
RequestsIn(msgs) ==
    IF msgs = <<>> THEN 0 ELSE Requests(Head(msgs)) + RequestsIn(Tail(msgs))

ToolResults(msgs) == Cardinality({k \in DOMAIN msgs : msgs[k].type = "tool"})

\* the tool calls of the running command that have returned or raised
CallsEnded ==
    ToolResults(messages) + Cardinality({i \in 1..MaxCalls : thr[i].pc = "done"})

(* C20, as stated: each adapter call performs exactly one facade           *)
(* operation: whenever the coroutine of a tool ends, one more operation    *)
(* has been performed.                                                     *)
C20_ExactlyOne ==
    [][\A i \in 1..MaxCalls :
          (thr[i].pc = "coro" /\ thr'[i].pc = "done") =>
             facade_ops' = facade_ops + 1]_vars

(* C20, amended: each adapter call performs at most one facade operation   *)
(* (besides the lazy initialize), none is retried, and the operations      *)
(* performed during a command never exceed the tool calls that have ended, *)
(* which never exceed the tool calls the LLM requested.                    *)
C20_AtMostOne ==
    mainpc = "run" =>
        /\ facade_ops <= CallsEnded
        /\ CallsEnded <= RequestsIn(messages)

\* a close_browser call has returned its status text with no manager to close
C20_Witness ==
    /\ mainpc = "run"
    /\ node = "tools"
    /\ facade_ops = 0
    /\ \E i \in 1..MaxCalls :
          /\ i <= NCalls
          /\ LastCalls[i] = "close_browser"
          /\ thr[i] = [pc |-> "done", result |-> "ok"]

-----------------------------------------------------------------------------
(* The sample application *)

Given(v) == v \notin {"None", ""}

(* C21: POST /login answers success with status 200 exactly for testuser / *)
(* testpass, 401 without success for any other pair of non-empty fields,   *)
(* 400 without success when a field is missing or empty, and always with a *)
(* message.                                                                *)
C21_LoginResponse ==
    login_response # NoResponse =>
        LET r == login_response
            pair == r.username = "testuser" /\ r.password = "testpass"
        IN /\ r.success <=> pair
           /\ r.status = 200 <=> pair
           /\ (Given(r.username) /\ Given(r.password) /\ ~pair) => r.status = 401
           /\ (~Given(r.username) \/ ~Given(r.password)) => r.status = 400
           /\ r.status \in {200, 401, 400}
           /\ r.message # ""

\* a request with the right username and a wrong password was refused
C21_Witness ==
    /\ login_response.username = "testuser"
    /\ login_response.password = "wrongpass"
    /\ login_response.status = 401
    /\ ~login_response.success

ValidCredentials(f) == f.username = "testuser" /\ f.password = "testpass"

(* C22: after the root page was opened, the form filled with testuser /    *)
(* testpass and #loginBtn clicked, the page eventually is at a URL holding *)
(* dashboard where #welcomeMessage exists; a submission with other         *)
(* credentials ends on the login page with #message of class error, and    *)
(* the page comes to the dashboard only by the redirect of a valid login.  *)
C22_LoginScenario ==
    /\ (pending = "request" /\ ValidCredentials(form)) ~>
          (page_url = DASHBOARD /\ "#welcomeMessage" \in SiteElements(page_url))
    /\ [][(pending = "request" /\ ~ValidCredentials(form)) =>
             \/ pending' = "request"
             \/ /\ pending' = "none"
                /\ page_url' = LOGIN
                /\ message_class' = "error"]_vars
    /\ [][(page_url' = DASHBOARD /\ page_url # DASHBOARD) =>
             (pending = "redirect" /\ ValidCredentials(form))]_vars

\* the valid login has brought the page to the dashboard
C22_Witness ==
    /\ page_url = DASHBOARD
    /\ pending = "none"
    /\ login_response.success
    /\ login_response.username = "testuser"
    /\ "#welcomeMessage" \in SiteElements(page_url)

StartStep ==
    /\ srv_result'.op = "start"
    /\ srv_result' # srv_result \/ Len(procs') > Len(procs)

StopStep ==
    /\ srv_result'.op = "stop"
    /\ srv_result' # srv_result \/ (server_process # 0 /\ server_process' = 0)

-----------------------------------------------------------------------------
(* Lazy initialization, termination, failed commands *)

\* initialize has run on manager k in this step: a resource it creates is new
Initialized(k) ==
    \/ managers'[k].browser # managers[k].browser
    \/ managers'[k].playwright = "started" /\ managers[k].playwright # "started"
    \/ managers'[k].context = "open" /\ managers[k].context # "open"
    \/ managers'[k].page = "open" /\ managers[k].page # "open"

(* C23: the adapter layer never invokes initialize on a manager that still *)
(* holds an engine handle, browser, context or page, also after an earlier *)
(* initialize that failed part-way: a manager that initialize changes held *)
(* nothing before the step.                                                *)
C23_InitializeOnce ==
    [][\A k \in DOMAIN managers : Initialized(k) => managers[k] = NewManager]_vars

PlainAnswer(m) == m.type = "ai" /\ m.tool_calls = <<>>

(* C24: run_agent returns only when the last message is a plain answer of  *)
(* the LLM, never while it carries tool calls; and, the LLM answering and  *)
(* every tool call returning, a running command eventually ends, and once  *)
(* the plain answer is there the accumulated state is returned.            *)
C24_Terminates ==
    /\ []((mainpc = "run" /\ node = "end") =>
             (messages # <<>> /\ PlainAnswer(Last(messages))))
    /\ []((mainpc = "input" /\ report = "Agent Response") =>
             (state_messages # <<>> /\ PlainAnswer(Last(state_messages))))
    /\ (mainpc = "run") ~> (mainpc # "run")
    /\ (mainpc = "run" /\ node = "end") ~> (report = "Agent Response" \/ interrupted)

\* a command with a tool turn has returned its plain answer
C24_Witness ==
    /\ mainpc = "input"
    /\ report = "Agent Response"
    /\ Len(state_messages) >= 4
    /\ state_messages[Len(state_messages) - 1].type = "tool"
    /\ PlainAnswer(Last(state_messages))

(* C26: a command that fails leaves the caller's transcript as it was      *)
(* before the call: while the loop awaits input, every user message of the *)
(* transcript belongs to a command that returned, so it is followed by the *)
(* assistant's message.                                                    *)
C26_FailureLeavesState ==
    mainpc = "input" =>
        \A k \in DOMAIN state_messages :
            state_messages[k].type = "human" =>
                (k < Len(state_messages) /\ state_messages[k + 1].type = "ai")

====
